---- MODULE Spec2Model ----
(***************************************************************************)
(* GPTLov: the ingestion pipeline (archive acquisition, prebuilt vector    *)
(* store install, index build, ensure_vector_store) and the bot            *)
(* (retrieve / generate_answer / ask).                                      *)
(*                                                                          *)
(* The pipeline is single-threaded and synchronous, so every call is one   *)
(* action; a call that raises is the same action ending with status        *)
(* "error" and the filesystem as the code left it at the raise.            *)
(***************************************************************************)
EXTENDS Integers, Sequences, FiniteSets, TLC

VARIABLES raw, store, tmp, extracted, esDocs, cfg, last,
          metadata, question, apiKey, client, lastAsk

vars == <<raw, store, tmp, extracted, esDocs, cfg, last,
          metadata, question, apiKey, client, lastAsk>>

pipelineVars == <<raw, store, tmp, extracted, esDocs, cfg, last>>
botVars == <<metadata, question, apiKey, client, lastAsk>>

\* ------------------------------------------------------------------ bounds
NumPayloads == 2      \* distinct prebuilt payloads the server can send
MaxChunks == 2        \* chunk records build_chunks can yield
MaxDocs == 3          \* documents in a loaded vector store
MaxTopK == 2          \* largest top_k a caller passes
MaxScore == 1         \* cosine similarities are drawn from 0..MaxScore

\* --------------------------------------------------------- program constants
DEFAULT_ARCHIVES == <<"gjeldende-lover.tar.bz2", "gjeldende-sentrale-forskrifter.tar.bz2">>
VECTOR_STORE_FILENAME == "vector_store.pkl"
DefaultTopK == 5

ArchiveNames == {DEFAULT_ARCHIVES[i] : i \in 1..Len(DEFAULT_ARCHIVES)}

\* ------------------------------------------------------------- file contents
\* a file under raw_data_dir: "absent", "partial" (opened, body not fully
\* written) or "complete"
NoArchive == "absent"

\* the artifact at <workspace>/vector_store.pkl
NoStore == [exists |-> FALSE, origin |-> "none", payload |-> 0]
BuiltStore(n) == [exists |-> TRUE, origin |-> "built", payload |-> n]
PrebuiltStore(p) == [exists |-> TRUE, origin |-> "prebuilt", payload |-> p]

\* the scratch directory <workspace>/.vector_store_tmp
NoDir == [exists |-> FALSE, download |-> "none", tree |-> "none"]
EmptyDir == [exists |-> TRUE, download |-> "none", tree |-> "none"]

\* ------------------------------------------------------------ configuration
NoUrl == "None"
Urls == {"https://h/store.tar.gz", "https://h/store.zip",
         "https://h/vector_store.pkl", "https://h/store"}

Settings == {[search_backend |-> "elasticsearch", vector_store_url |-> u] :
                 u \in {NoUrl, "https://h/store.tar.gz"}}
            \cup [search_backend : {"tfidf"}, vector_store_url : {NoUrl} \cup Urls]

\* "".join(Path(urlparse(url).path).suffixes)
archive_ext(url) ==
    CASE url = "https://h/store.tar.gz" -> ".tar.gz"
      [] url = "https://h/store.zip" -> ".zip"
      [] url = "https://h/vector_store.pkl" -> ".pkl"
      [] OTHER -> ""

IsTarExt(ext) == ext \in {".tar.gz", ".tgz", ".tar.bz2", ".tar"}
IsZipExt(ext) == ext = ".zip"

\* ------------------------------------------------------------ network inputs
\* one streaming GET: "http_error" is a transport failure or a non-2xx
\* status (raise_for_status) before the destination is opened;
\* "stream_error" is a failure or timeout while the body is being written
NetOutcomes == {"http_error", "stream_error", "ok"}
ArchiveNets == [ArchiveNames -> NetOutcomes]
PrebuiltNets == {[outcome |-> "http_error", payload |-> 0, hasArtifact |-> FALSE]}
                \cup [outcome : {"stream_error", "ok"}, payload : 1..NumPayloads,
                      hasArtifact : BOOLEAN]

\* ------------------------------------------------------------- a running call
Start == [raw |-> raw, store |-> store, tmp |-> tmp, extracted |-> extracted,
          esDocs |-> esDocs, events |-> <<>>, status |-> "ok", ret |-> <<>>]

Log(r, kind, arg) == [r EXCEPT !.events = Append(@, <<kind, arg>>)]
Raise(r) == [r EXCEPT !.status = "error", !.ret = <<>>]
Return(r, v) == [r EXCEPT !.ret = v]

\* ------------------------------------------------------- Archive Acquisition
\* faulty variant: download_archive without the "already present" early return
download_archive_refetch(r, filename, net) ==
    LET r1 == Log(r, "GET", filename) IN
    CASE net = "http_error" -> Raise(r1)
      [] net = "stream_error" ->
           Raise(Log([r1 EXCEPT !.raw[filename] = "partial"], "open", filename))
      [] OTHER ->
           LET r2 == Log([r1 EXCEPT !.raw[filename] = "complete"], "open", filename)
           IN Return(r2, Append(r2.ret, filename))

\* download_archive(filename, dest_dir)
download_archive(r, filename, net) ==
    IF r.raw[filename] # NoArchive
    THEN Return(r, Append(r.ret, filename))
    ELSE LET r1 == Log(r, "GET", filename) IN
         CASE net = "http_error" -> Raise(r1)
           [] net = "stream_error" ->
                Raise(Log([r1 EXCEPT !.raw[filename] = "partial"], "open", filename))
           [] OTHER ->
                LET r2 == Log([r1 EXCEPT !.raw[filename] = "complete"], "open", filename)
                IN Return(r2, Append(r2.ret, filename))

\* the loop of ensure_archives from position i on; an exception ends it
RECURSIVE ensure_archives_from(_, _, _, _, _)
ensure_archives_from(r, filenames, force, nets, i) ==
    IF i > Len(filenames) \/ r.status = "error"
    THEN r
    ELSE LET name == filenames[i]
             r1 == IF force /\ r.raw[name] # NoArchive
                   THEN Log([r EXCEPT !.raw[name] = NoArchive], "unlink", name)
                   ELSE r
         IN ensure_archives_from(download_archive(r1, name, nets[name]),
                                 filenames, force, nets, i + 1)

\* ensure_archives(filenames=None, force=False); settings.archives is the
\* default pair unless the environment names others
ensure_archives(r, arg, force, nets) ==
    LET filenames == IF arg.given THEN arg.names ELSE DEFAULT_ARCHIVES
    IN ensure_archives_from(Return(r, <<>>), filenames, force, nets, 1)

\* -------------------------------------------------------- prebuilt vector store
\* _finalize(src): unlink the canonical artifact if present, then move src there
finalize(r, which, payload) ==
    LET r1 == IF r.store.exists
              THEN Log([r EXCEPT !.store = NoStore], "unlink", VECTOR_STORE_FILENAME)
              ELSE r
        r2 == IF which = "download" THEN [r1 EXCEPT !.tmp.download = "none"] ELSE r1
    IN Log([r2 EXCEPT !.store = PrebuiltStore(payload)], "move", VECTOR_STORE_FILENAME)

\* shutil.rmtree(tmp_dir, ignore_errors=True)
rmtree_tmp(r) == Log([r EXCEPT !.tmp = NoDir], "rmtree", ".vector_store_tmp")

\* lines 90-121: what happens once the body has been written to download_target
install_download(r, url, net, extract) ==
    LET ext == archive_ext(url) IN
    IF IsTarExt(ext) \/ IsZipExt(ext)
    THEN LET r1 == Log(r, "extract", url) IN
         IF extract = "error"
         THEN Raise([r1 EXCEPT !.tmp.tree = "partial"])
         ELSE LET r2 == [r1 EXCEPT !.tmp.tree = "full", !.tmp.download = "none"] IN
              IF ~net.hasArtifact
              THEN Raise(r2)
              ELSE Return(rmtree_tmp(finalize(r2, "tree", net.payload)),
                          <<VECTOR_STORE_FILENAME>>)
    ELSE Return(rmtree_tmp(finalize(r, "download", net.payload)),
                <<VECTOR_STORE_FILENAME>>)

\* faulty variant: the body is streamed straight to the canonical artifact path
download_prebuilt_in_place(r, url, force, net, extract) ==
    IF r.store.exists /\ ~force
    THEN Return(r, <<VECTOR_STORE_FILENAME>>)
    ELSE LET r1 == Log(r, "GET", url) IN
         CASE net.outcome = "http_error" -> Raise(r1)
           [] net.outcome = "stream_error" ->
                Raise([r1 EXCEPT !.store = PrebuiltStore(net.payload)])
           [] OTHER ->
                Return([r1 EXCEPT !.store = PrebuiltStore(net.payload)],
                       <<VECTOR_STORE_FILENAME>>)

\* _download_prebuilt_vector_store(url, workspace_dir, force)
download_prebuilt_vector_store(r, url, force, net, extract) ==
    IF r.store.exists /\ ~force
    THEN Return(r, <<VECTOR_STORE_FILENAME>>)
    ELSE LET r1 == IF r.tmp.exists THEN rmtree_tmp(r) ELSE r
             r2 == Log([r1 EXCEPT !.tmp = EmptyDir], "mkdir", ".vector_store_tmp")
             r3 == Log(r2, "GET", url)
         IN CASE net.outcome = "http_error" -> Raise(r3)
              [] net.outcome = "stream_error" ->
                   Raise([r3 EXCEPT !.tmp.download = "partial"])
              [] OTHER ->
                   install_download([r3 EXCEPT !.tmp.download = "complete"],
                                    url, net, extract)

\* ------------------------------------------------------------- Index Builder
\* faulty variant: build_vector_store without the empty-corpus guard
build_vector_store_unguarded(r, chunks) ==
    LET r1 == Log(r, "build_vector_store", IF chunks = 0 THEN "no chunks" ELSE "chunks") IN
    Return(Log([r1 EXCEPT !.store = BuiltStore(chunks)], "save", VECTOR_STORE_FILENAME),
           <<VECTOR_STORE_FILENAME>>)

\* build_vector_store(chunks, workspace_dir); chunks is the number of chunks
build_vector_store(r, chunks) ==
    LET r1 == Log(r, "build_vector_store", IF chunks = 0 THEN "no chunks" ELSE "chunks") IN
    IF chunks = 0
    THEN Raise(r1)
    ELSE Return(Log([r1 EXCEPT !.store = BuiltStore(chunks)], "save", VECTOR_STORE_FILENAME),
                <<VECTOR_STORE_FILENAME>>)

\* ------------------------------------------------- collaborators (ingest, backend)
\* ingest.extract_archives(raw_dir, extracted_root, force)
extract_archives(r, force, outcome) ==
    LET r1 == Log(r, "extract_archives", "") IN
    IF outcome = "error" THEN Raise(r1) ELSE [r1 EXCEPT !.extracted = TRUE]

\* ElasticsearchBackend.has_documents / index_documents over iter_chunks
es_backend(r, force, outcome, chunks) ==
    IF ~force
    THEN LET r1 == Log(r, "backend", "has_documents") IN
         IF outcome = "error" THEN Raise(r1)
         ELSE IF r1.esDocs > 0 THEN Return(r1, <<"None">>)
         ELSE Return(Log([r1 EXCEPT !.esDocs = chunks], "backend", "index_documents"),
                     <<"None">>)
    ELSE LET r1 == Log(r, "backend", "index_documents") IN
         IF outcome = "error" THEN Raise(r1)
         ELSE Return([r1 EXCEPT !.esDocs = chunks], <<"None">>)

\* ------------------------------------------------------ Pipeline Orchestrator
\* lines 169-176: acquire, extract, chunk, build
local_build(r, force, inp) ==
    LET r1 == ensure_archives(r, [given |-> FALSE, names |-> <<>>], force, inp.nets) IN
    IF r1.status = "error" THEN r1
    ELSE LET r2 == extract_archives(r1, force, inp.ingest) IN
         IF r2.status = "error" THEN r2
         ELSE build_vector_store(Log(r2, "build_chunks", ""), inp.chunks)

\* lines 125-146: the elasticsearch branch
remote_backend(r, force, inp) ==
    LET r1 == ensure_archives(r, [given |-> FALSE, names |-> <<>>], force, inp.nets) IN
    IF r1.status = "error" THEN r1
    ELSE LET r2 == extract_archives(r1, force, inp.ingest) IN
         IF r2.status = "error" THEN r2
         ELSE es_backend(r2, force, inp.es, inp.chunks)

\* faulty variant: local mode rebuilds even when the artifact is present
ensure_vector_store_rebuild(r, settings, force, inp) ==
    IF settings.search_backend = "elasticsearch"
    THEN remote_backend(r, force, inp)
    ELSE IF settings.vector_store_url # NoUrl
    THEN download_prebuilt_vector_store(r, settings.vector_store_url, force,
                                        inp.pnet, inp.extract)
    ELSE local_build(r, force, inp)

\* faulty variant: a failed prebuilt install falls through to a local build
ensure_vector_store_fallback(r, settings, force, inp) ==
    IF settings.search_backend = "elasticsearch"
    THEN remote_backend(r, force, inp)
    ELSE IF settings.vector_store_url # NoUrl
    THEN LET p == download_prebuilt_vector_store(r, settings.vector_store_url, force,
                                                 inp.pnet, inp.extract)
         IN IF p.status = "error"
            THEN local_build([p EXCEPT !.status = "ok"], force, inp)
            ELSE p
    ELSE IF r.store.exists /\ ~force
    THEN Return(r, <<VECTOR_STORE_FILENAME>>)
    ELSE local_build(r, force, inp)

\* ensure_vector_store(force)
ensure_vector_store(r, settings, force, inp) ==
    IF settings.search_backend = "elasticsearch"
    THEN remote_backend(r, force, inp)
    ELSE IF settings.vector_store_url # NoUrl
    THEN download_prebuilt_vector_store(r, settings.vector_store_url, force,
                                        inp.pnet, inp.extract)
    ELSE IF r.store.exists /\ ~force
    THEN Return(r, <<VECTOR_STORE_FILENAME>>)
    ELSE local_build(r, force, inp)

\* which of the three paths the configuration selects
Mode(settings) ==
    IF settings.search_backend = "elasticsearch" THEN "remote"
    ELSE IF settings.vector_store_url # NoUrl THEN "prebuilt"
    ELSE "local"

\* the inputs a call of ensure_vector_store can consume under a configuration
NoNets == [a \in ArchiveNames |-> "ok"]
NoPNet == [outcome |-> "http_error", payload |-> 0, hasArtifact |-> FALSE]
EnsureInputs(settings) ==
    CASE Mode(settings) = "remote" ->
           [nets : ArchiveNets, ingest : {"ok", "error"}, chunks : 0..MaxChunks,
            es : {"ok", "error"}, pnet : {NoPNet}, extract : {"ok"}]
      [] Mode(settings) = "prebuilt" ->
           [nets : {NoNets}, ingest : {"ok"}, chunks : {0},
            es : {"ok"}, pnet : PrebuiltNets, extract : {"ok", "error"}]
      [] OTHER ->
           [nets : ArchiveNets, ingest : {"ok", "error"}, chunks : 0..MaxChunks,
            es : {"ok"}, pnet : {NoPNet}, extract : {"ok"}]

\* ------------------------------------------------------------------ the bot
\* a loaded VectorStore is the sequence of its metadata[i]["content"]; row i of
\* the matrix is document i
Contents == {"a", "b"}
Stores == UNION {[1..n -> Contents] : n \in 1..MaxDocs}

\* the top_k argument of retrieve/ask: None or a non-negative int
NoneTopK == [given |-> FALSE, value |-> 0]
TopKArgs == {NoneTopK} \cup [given : {TRUE}, value : 0..MaxTopK]

\* Python truthiness of the argument in "top_k or settings.top_k"
Truthy(arg) == arg.given /\ arg.value # 0

Min(a, b) == IF a < b THEN a ELSE b

\* np.argsort(scores): the index orders that sort scores ascending; the
\* default kind is not a stable sort, so equal scores may come in any order
argsort(scores) ==
    LET n == Len(scores) IN
    {p \in [1..n -> 1..n] :
        /\ \A i, j \in 1..n : i # j => p[i] # p[j]
        /\ \A i \in 1..(n - 1) : scores[p[i]] <= scores[p[i + 1]]}

\* order[::-1][:k] for k >= 0
reverse_take(order, k) ==
    LET n == Len(order) IN [i \in 1..Min(k, n) |-> order[n + 1 - i]]

\* GPTLovBot.retrieve(question, top_k); scores is cosine_similarity(matrix,
\* query_vector).ravel() and order the outcome of np.argsort(scores)
retrieve(docs, scores, arg, order) ==
    LET top_k == IF Truthy(arg) THEN arg.value ELSE DefaultTopK
        top_indices == reverse_take(order, top_k)
    IN [i \in 1..Len(top_indices) |->
            [score |-> scores[top_indices[i]],
             content |-> docs[top_indices[i]],
             idx |-> top_indices[i]]]

Notice == <<"No OpenAI API key configured. Here are the most relevant excerpts:", "\n\n">>

\* "\n\n".join(parts)
RECURSIVE join(_)
join(parts) ==
    IF Len(parts) = 0 THEN <<>>
    ELSE IF Len(parts) = 1 THEN <<parts[1]>>
    ELSE <<parts[1], "\n\n">> \o join(Tail(parts))

\* GPTLovBot._ensure_client: the cached client, a new one, or RuntimeError
ensure_client(cached, key) ==
    IF cached THEN "cached" ELSE IF ~key THEN "RuntimeError" ELSE "new"

\* faulty variant: the completion service is called before the credential is checked
generate_answer_eager(blocks, cached, key, completion) ==
    IF ensure_client(cached, key) = "RuntimeError"
    THEN [status |-> "ok", calls |-> 1, client |-> cached,
          answer |-> Notice \o join([i \in 1..Len(blocks) |-> blocks[i].content])]
    ELSE IF completion = "error"
    THEN [status |-> "error", calls |-> 1, client |-> TRUE, answer |-> <<>>]
    ELSE [status |-> "ok", calls |-> 1, client |-> TRUE, answer |-> <<"svar">>]

\* GPTLovBot.generate_answer(question, context_blocks)
generate_answer(blocks, cached, key, completion) ==
    IF ensure_client(cached, key) = "RuntimeError"
    THEN [status |-> "ok", calls |-> 0, client |-> cached,
          answer |-> Notice \o join([i \in 1..Len(blocks) |-> blocks[i].content])]
    ELSE IF completion = "error"
    THEN [status |-> "error", calls |-> 1, client |-> TRUE, answer |-> <<>>]
    ELSE [status |-> "ok", calls |-> 1, client |-> TRUE, answer |-> <<"svar">>]

\* GPTLovBot.ask(question, top_k)
ask(docs, scores, arg, order, cached, key, completion) ==
    LET context_blocks == retrieve(docs, scores, arg, order)
        g == generate_answer(context_blocks, cached, key, completion)
    IN [op |-> "ask", scores |-> scores, top_k |-> arg, results |-> context_blocks,
        status |-> g.status, calls |-> g.calls, answer |-> g.answer,
        contexts |-> IF g.status = "ok"
                     THEN [i \in 1..Len(context_blocks) |->
                              [score |-> context_blocks[i].score,
                               idx |-> context_blocks[i].idx,
                               content |-> context_blocks[i].content]]
                     ELSE <<>>,
        client |-> g.client]

NoAsk == [op |-> "none", scores |-> <<>>, top_k |-> NoneTopK, results |-> <<>>,
          status |-> "ok", calls |-> 0, answer |-> <<>>, contexts |-> <<>>,
          client |-> FALSE]

\* ------------------------------------------------------------------- actions
NoCall == [op |-> "none", names |-> <<>>, force |-> FALSE, status |-> "ok",
           events |-> <<>>, ret |-> <<>>, preExists |-> {}]

\* the filesystem as the call left it
Commit(r) ==
    /\ raw' = r.raw
    /\ store' = r.store
    /\ tmp' = r.tmp
    /\ extracted' = r.extracted
    /\ esDocs' = r.esDocs

\* the record of the call: its arguments, its outcome, the I/O it performed
\* and which archives were on disk when it began
Record(r, op, names, force) ==
    [op |-> op, names |-> names, force |-> force, status |-> r.status,
     events |-> r.events, ret |-> r.ret,
     preExists |-> {a \in ArchiveNames : raw[a] # NoArchive}]

\* filenames=None, or one name
FilenameArgs == {[given |-> TRUE, names |-> <<a>>] : a \in ArchiveNames}
                \cup {[given |-> FALSE, names |-> <<>>]}

DownloadArchive ==
    \E name \in ArchiveNames, net \in NetOutcomes :
        LET r == download_archive(Start, name, net) IN
        /\ Commit(r)
        /\ last' = Record(r, "download_archive", <<name>>, FALSE)
        /\ UNCHANGED <<cfg, botVars>>

EnsureArchives ==
    \E arg \in FilenameArgs, force \in BOOLEAN, nets \in ArchiveNets :
        LET r == ensure_archives(Start, arg, force, nets) IN
        /\ Commit(r)
        /\ last' = Record(r, "ensure_archives",
                          IF arg.given THEN arg.names ELSE DEFAULT_ARCHIVES, force)
        /\ UNCHANGED <<cfg, botVars>>

BuildVectorStore ==
    \E chunks \in 0..MaxChunks :
        LET r == build_vector_store(Start, chunks) IN
        /\ Commit(r)
        /\ last' = Record(r, "build_vector_store", <<>>, FALSE)
        /\ UNCHANGED <<cfg, botVars>>

EnsureVectorStore ==
    \E force \in BOOLEAN, inp \in EnsureInputs(cfg) :
        LET r == ensure_vector_store(Start, cfg, force, inp) IN
        /\ Commit(r)
        /\ last' = Record(r, "ensure_vector_store", <<>>, force)
        /\ UNCHANGED <<cfg, botVars>>

BotInitFixed ==
    /\ metadata = <<"a">>
    /\ question = <<0>>
    /\ apiKey = FALSE
    /\ client = FALSE
    /\ lastAsk = NoAsk

Init ==
    /\ raw = [a \in ArchiveNames |-> NoArchive]
    /\ store = NoStore
    /\ tmp = NoDir
    /\ extracted = FALSE
    /\ esDocs = 0
    /\ cfg \in Settings
    /\ last = NoCall
    /\ BotInitFixed

Next ==
    \/ DownloadArchive
    \/ EnsureArchives
    \/ BuildVectorStore
    \/ EnsureVectorStore

Spec == Init /\ [][Next]_vars

\* -------------------------------------------------------------- bot actions
\* the question put to the bot is known by the scores it gets:
\* question[i] is the cosine similarity of document i to its query vector
Retrieve ==
    \E arg \in TopKArgs, order \in argsort(question) :
        /\ lastAsk' = [NoAsk EXCEPT !.op = "retrieve", !.scores = question, !.top_k = arg,
                                    !.results = retrieve(metadata, question, arg, order),
                                    !.client = client]
        /\ UNCHANGED <<metadata, question, apiKey, client, pipelineVars>>

Ask ==
    \E arg \in TopKArgs, order \in argsort(question), completion \in {"ok", "error"} :
        LET a == ask(metadata, question, arg, order, client, apiKey, completion) IN
        /\ lastAsk' = a
        /\ client' = a.client
        /\ UNCHANGED <<metadata, question, apiKey, pipelineVars>>

BotInit ==
    /\ raw = [a \in ArchiveNames |-> NoArchive]
    /\ store = NoStore
    /\ tmp = NoDir
    /\ extracted = FALSE
    /\ esDocs = 0
    /\ cfg = [search_backend |-> "tfidf", vector_store_url |-> NoUrl]
    /\ last = NoCall
    /\ metadata \in Stores
    /\ question \in [1..Len(metadata) -> 0..MaxScore]
    /\ apiKey \in BOOLEAN
    /\ client = FALSE
    /\ lastAsk = NoAsk

BotNext ==
    \/ Retrieve
    \/ Ask

BotSpec == BotInit /\ [][BotNext]_vars

\* ---------------------------------------------------------- reading a call
Events(call) == {call.events[i] : i \in DOMAIN call.events}
Gets(call, a) == Cardinality({i \in DOMAIN call.events : call.events[i] = <<"GET", a>>})
Returned(call, a) == \E i \in DOMAIN call.ret : call.ret[i] = a
\* the call is an acquire that got as far as archive a
Acquired(call, a) ==
    /\ call.op \in {"download_archive", "ensure_archives"}
    /\ Returned(call, a) \/ Gets(call, a) > 0
\* every GET of a in the call comes after an unlink of a
UnlinkBeforeGet(call, a) ==
    \A j \in DOMAIN call.events :
        call.events[j] = <<"GET", a>> =>
            \E i \in 1..(j - 1) : call.events[i] = <<"unlink", a>>
ArchiveEvent(e) == e[2] \in ArchiveNames
PrebuiltEvent(e) ==
    \/ e[1] \in {"mkdir", "rmtree", "extract", "move"}
    \/ e[1] = "GET" /\ e[2] \in Urls
    \/ e = <<"unlink", VECTOR_STORE_FILENAME>>
BuildEvent(e) == e[1] \in {"build_chunks", "build_vector_store", "save"}
BackendEvent(e) == e[1] = "backend"
IngestEvent(e) == e[1] = "extract_archives"
IsPrebuiltCall(call) == call.op = "ensure_vector_store" /\ Mode(cfg) = "prebuilt"

\* ------------------------------------------------------------------- claims

\* C1 as stated: from a directory without archive a, two consecutive acquires
\* of a without force perform exactly one GET and the second returns the
\* existing file unchanged; two with force perform exactly two GETs, each
\* after the deletion of the file that existed.
C1_AcquireTwiceAsStated ==
    [][\A a \in ArchiveNames :
         (Acquired(last, a) /\ Acquired(last', a) /\ a \notin last.preExists) =>
            /\ (~last.force /\ ~last'.force) =>
                  /\ Gets(last, a) + Gets(last', a) = 1
                  /\ raw[a] # NoArchive /\ raw'[a] = raw[a]
                  /\ Returned(last', a)
            /\ (last.force /\ last'.force /\ last.op = "ensure_archives"
                           /\ last'.op = "ensure_archives") =>
                  /\ Gets(last, a) = 1 /\ Gets(last', a) = 1
                  /\ a \in last'.preExists => UnlinkBeforeGet(last', a)]_vars

\* C1 amended: the one-GET half holds when the first call's GET got a 2xx
\* response (the file was opened); when that GET failed before the file was
\* opened the second call issues a second GET. The forced half is as stated.
C1_AcquireTwice ==
    [][\A a \in ArchiveNames :
         (Acquired(last, a) /\ Acquired(last', a) /\ a \notin last.preExists) =>
            /\ (~last.force /\ ~last'.force /\ <<"open", a>> \in Events(last)) =>
                  /\ Gets(last, a) + Gets(last', a) = 1
                  /\ raw[a] # NoArchive /\ raw'[a] = raw[a]
                  /\ Returned(last', a)
            /\ (~last.force /\ ~last'.force /\ <<"open", a>> \notin Events(last)) =>
                  /\ Gets(last, a) = 1 /\ Gets(last', a) = 1
                  /\ raw[a] = NoArchive
            /\ (last.force /\ last'.force /\ last.op = "ensure_archives"
                           /\ last'.op = "ensure_archives") =>
                  /\ Gets(last, a) = 1 /\ Gets(last', a) = 1
                  /\ a \in last'.preExists => UnlinkBeforeGet(last', a)]_vars

\* a non-forced acquire found the archive in place and returned it without a GET
C1_Witness ==
    \E a \in ArchiveNames :
        /\ Acquired(last, a) /\ ~last.force
        /\ a \in last.preExists
        /\ Gets(last, a) = 0 /\ Returned(last, a)
        /\ raw[a] = "complete"

\* C2: a prebuilt-store install that fails (download error, extraction
\* failing partway, artifact not in the archive) leaves vector_store.pkl
\* exactly as it was before the call, forced or not.
C2_FailedInstallKeepsArtifact ==
    [][(IsPrebuiltCall(last') /\ last'.status = "error") => store' = store]_vars

\* a forced install over an existing artifact failed partway through extraction
C2_Witness ==
    /\ IsPrebuiltCall(last) /\ last.force /\ last.status = "error"
    /\ tmp.tree = "partial"
    /\ store.exists

\* C3: retrieve returns results in non-increasing score order, at most topK of
\* them and at most as many as the corpus has documents, fewer than topK only
\* when the corpus has fewer than topK documents.
C3_RankingAndLength ==
    lastAsk.op \in {"retrieve", "ask"} =>
        LET res == lastAsk.results
            topK == IF lastAsk.top_k.given THEN lastAsk.top_k.value ELSE DefaultTopK
        IN /\ \A i \in 1..(Len(res) - 1) : res[i].score >= res[i + 1].score
           /\ Len(res) <= topK
           /\ Len(res) <= Len(metadata)
           /\ Len(res) < topK => Len(metadata) < topK

\* C4: documents i < j with equal similarity come out in document order: if j
\* is in the result then so is i, and i comes first.
C4_TiesByDocumentOrder ==
    lastAsk.op \in {"retrieve", "ask"} =>
        LET res == lastAsk.results IN
        \A i, j \in 1..Len(metadata) :
            (i < j /\ lastAsk.scores[i] = lastAsk.scores[j]) =>
                \A pj \in DOMAIN res :
                    res[pj].idx = j => \E pi \in 1..(pj - 1) : res[pi].idx = i

\* C5: build_vector_store called with zero chunks fails and does not touch
\* vector_store.pkl, also when reached through a forced ensure_vector_store.
C5_EmptyCorpusGuard ==
    [][(<<"build_vector_store", "no chunks">> \in Events(last')) =>
          /\ last'.status = "error"
          /\ store' = store
          /\ \A e \in Events(last') : e[1] # "save"]_vars

\* a forced rebuild whose extraction yielded no chunks failed, the old
\* artifact is still there
C5_Witness ==
    /\ last.op = "ensure_vector_store" /\ last.force
    /\ <<"build_vector_store", "no chunks">> \in Events(last)
    /\ last.status = "error"
    /\ store.exists /\ store.origin = "built"

\* C6: in local and prebuilt mode a non-forced ensure_vector_store that finds
\* vector_store.pkl does nothing (no network call, no delete, no write) and
\* returns the artifact path.
C6_EnsureIsNoOpWhenPresent ==
    [][(/\ last'.op = "ensure_vector_store" /\ ~last'.force
        /\ Mode(cfg) \in {"local", "prebuilt"}
        /\ store.exists) =>
          /\ UNCHANGED <<raw, store, tmp, extracted, esDocs>>
          /\ last'.events = <<>>
          /\ last'.status = "ok"
          /\ last'.ret = <<VECTOR_STORE_FILENAME>>]_vars

\* a non-forced ensure_vector_store returned the artifact having done nothing
C6_Witness ==
    /\ last.op = "ensure_vector_store" /\ ~last.force
    /\ Mode(cfg) \in {"local", "prebuilt"}
    /\ store.exists
    /\ last.events = <<>> /\ last.ret = <<VECTOR_STORE_FILENAME>>

\* C7: a call of ensure_vector_store runs only the mode the configuration
\* selects: remote mode does no prebuilt download and no local build;
\* prebuilt mode does no archive acquisition, extraction, backend call or
\* local build, also when the install fails; local mode does no backend call
\* and no prebuilt download.
C7_ExactlyOneMode ==
    last.op = "ensure_vector_store" =>
        \A e \in Events(last) :
            /\ Mode(cfg) = "remote" => ~PrebuiltEvent(e) /\ ~BuildEvent(e)
            /\ Mode(cfg) = "prebuilt" =>
                  ~ArchiveEvent(e) /\ ~IngestEvent(e) /\ ~BackendEvent(e) /\ ~BuildEvent(e)
            /\ Mode(cfg) = "local" => ~BackendEvent(e) /\ ~PrebuiltEvent(e)

\* a prebuilt install was attempted and failed, and the call raised
C7_Witness ==
    /\ IsPrebuiltCall(last) /\ last.status = "error"
    /\ \E e \in Events(last) : e[1] = "GET"
    /\ ~store.exists

\* C8: ask makes no completion call without a credential and exactly one with
\* it; without a credential the answer is the notice followed by the
\* retrieved contents joined by blank lines; the contexts are the retrieved
\* excerpts in retrieval order on both paths.
C8_AskFallbackAndCalls ==
    lastAsk.op = "ask" =>
        LET res == lastAsk.results IN
        /\ ~apiKey =>
              /\ lastAsk.calls = 0
              /\ lastAsk.status = "ok"
              /\ lastAsk.answer = Notice \o join([i \in 1..Len(res) |-> metadata[res[i].idx]])
        /\ apiKey => lastAsk.calls = 1
        /\ lastAsk.status = "ok" =>
              /\ Len(lastAsk.contexts) = Len(res)
              /\ \A i \in 1..Len(res) :
                    /\ lastAsk.contexts[i].idx = res[i].idx
                    /\ lastAsk.contexts[i].content = metadata[res[i].idx]
                    /\ lastAsk.contexts[i].score = lastAsk.scores[res[i].idx]

\* ask fell back with at least two excerpts to join
C8_Witness ==
    /\ lastAsk.op = "ask" /\ ~apiKey
    /\ Len(lastAsk.results) >= 2
    /\ lastAsk.calls = 0
    /\ Len(lastAsk.answer) = Len(Notice) + 2 * Len(lastAsk.results) - 1

\* C9: after a prebuilt install that started a download, whether it returned
\* or raised, the scratch directory .vector_store_tmp does not exist.
C9_ScratchCleanedUp ==
    (IsPrebuiltCall(last) /\ \E e \in Events(last) : e[1] = "GET") => ~tmp.exists

\* C10: an archive file exists only if a download of it ran to completion, so
\* an acquire never returns the path of a partially written file.
C10_NoPartialArchive ==
    /\ \A a \in ArchiveNames : raw[a] \in {NoArchive, "complete"}
    /\ \A a \in ArchiveNames :
          (Acquired(last, a) /\ Returned(last, a)) => raw[a] = "complete"

====
